---------------------------- MODULE Spec2Model ----------------------------
(***************************************************************************)
(* MasterController (src/server/src/app/utils/MasterController.js): the    *)
(* route registration, the request handler and the Joi payload validator.  *)
(***************************************************************************)
EXTENDS Integers, Sequences, FiniteSets, TLC

VARIABLES
    routes,     \* the router's route table, in registration order
    calls,      \* the registration calls made by the router file, with their results
    listening,  \* httpServer.listen has been called (server.js:31)
    created,    \* number of controller instances created so far
    reqs,       \* the requests received, in arrival order, each with its handler's state
    jv          \* a stand-alone application of joiValidator: its arguments and result

vars == <<routes, calls, listening, created, reqs, jv>>

---------------------------------------------------------------------------
(* Bounds *)

MaxRequests == 2
MaxCalls == 2
MaxRules == 2

---------------------------------------------------------------------------
(* JavaScript objects: finite functions from property names to values *)

EmptyObj == <<>>

Obj(S, v) == [k \in S |-> v]

\* { ...a, ...b }: b's properties replace a's
Spread(a, b) ==
    [k \in (DOMAIN a) \cup (DOMAIN b) |-> IF k \in DOMAIN b THEN b[k] ELSE a[k]]

Keys == {"id", "limit"}
KeyOrder == <<"id", "limit">>

---------------------------------------------------------------------------
(* RequestBuilder, PayloadType and a Joi object schema *)

PayloadType == [PARAMS |-> "PARAMS", QUERY |-> "QUERY", BODY |-> "BODY"]

\* a Joi.object().keys({k: <type>.required(), ...}) schema: its required keys
Schemas == {{}, {"id"}, {"id", "limit"}}

\* the message of the detail Joi reports for a missing required key
Message(k) == <<k, "is required">>

RECURSIVE MissingFrom(_, _, _)
MissingFrom(schema, value, i) ==
    IF i > Len(KeyOrder) THEN <<>>
    ELSE (IF KeyOrder[i] \in schema /\ KeyOrder[i] \notin DOMAIN value
              THEN <<Message(KeyOrder[i])>> ELSE <<>>)
         \o MissingFrom(schema, value, i + 1)

\* schema.validate(value, {abortEarly: false, allowUnknown: true}).error.details
\* mapped to their messages; the empty sequence stands for no error
SchemaValidate(schema, value) == MissingFrom(schema, value, 1)

\* RequestBuilder.get: the payload list
RequestBuilder_get(validationRules) == validationRules

\* RequestBuilder.payload
RequestBuilder_payload(validationRules) == validationRules

---------------------------------------------------------------------------
(* MasterController.joiValidator *)

JoiNull == [isNull |-> TRUE, obj |-> EmptyObj]

NewJoiErrors == [query |-> <<>>, param |-> <<>>, body |-> <<>>]

\* one iteration of validationRules.payload.forEach
JoiStep_bodyToQuery(st, payload, params, query, body) ==
    IF payload.type = PayloadType.PARAMS THEN
        [errs |-> [st.errs EXCEPT !.param = @ \o SchemaValidate(payload.schema, params)],
         runs |-> st.runs + 1]
    ELSE IF payload.type = PayloadType.QUERY THEN
        [errs |-> [st.errs EXCEPT !.query = @ \o SchemaValidate(payload.schema, query)],
         runs |-> st.runs + 1]
    ELSE IF payload.type = PayloadType.BODY THEN
        [errs |-> [st.errs EXCEPT !.query = @ \o SchemaValidate(payload.schema, body)],
         runs |-> st.runs + 1]
    ELSE st

JoiStep(st, payload, params, query, body) ==
    IF payload.type = PayloadType.PARAMS THEN
        [errs |-> [st.errs EXCEPT !.param = @ \o SchemaValidate(payload.schema, params)],
         runs |-> st.runs + 1]
    ELSE IF payload.type = PayloadType.QUERY THEN
        [errs |-> [st.errs EXCEPT !.query = @ \o SchemaValidate(payload.schema, query)],
         runs |-> st.runs + 1]
    ELSE IF payload.type = PayloadType.BODY THEN
        [errs |-> [st.errs EXCEPT !.body = @ \o SchemaValidate(payload.schema, body)],
         runs |-> st.runs + 1]
    ELSE st

RECURSIVE JoiForEach(_, _, _, _, _, _)
JoiForEach(st, payload, i, params, query, body) ==
    IF i > Len(payload) THEN st
    ELSE JoiForEach(JoiStep(st, payload[i], params, query, body),
                    payload, i + 1, params, query, body)

\* the three "delete joiErrors.x" statements
JoiPrune_keepEmpty(errs) == errs

JoiPrune(errs) ==
    [k \in {k \in DOMAIN errs : Len(errs[k]) # 0} |-> errs[k]]

\* the whole function; ret is the returned value, runs the number of
\* schema.validate calls made
joiValidatorRun(params, query, body, validationRules) ==
    IF Len(RequestBuilder_get(validationRules)) = 0 THEN
        [ret |-> JoiNull, runs |-> 0]
    ELSE
        LET st == JoiForEach([errs |-> NewJoiErrors, runs |-> 0],
                             RequestBuilder_payload(validationRules), 1,
                             params, query, body)
            joiErrors == JoiPrune(st.errs)
        IN  [ret |-> IF Cardinality(DOMAIN joiErrors) = 0 THEN JoiNull
                     ELSE [isNull |-> FALSE, obj |-> joiErrors],
             runs |-> st.runs]

joiValidator(params, query, body, validationRules) ==
    joiValidatorRun(params, query, body, validationRules).ret

---------------------------------------------------------------------------
(* Controller classes: MasterController itself and the README's Controller *)

Classes == {"MasterController", "Controller"}

\* new ResponseBuilder(status, data, message)
ResponseBuilder(status, data, message) ==
    [response |-> [status |-> status, message |-> message, data |-> data]]

\* static validate(): the base class returns an empty RequestBuilder; the
\* override adds a body, a query and a params schema, in that order
validate(cls) ==
    IF cls = "MasterController" THEN <<>>
    ELSE <<[type |-> PayloadType.BODY, schema |-> {"id"}],
           [type |-> PayloadType.QUERY, schema |-> {"id"}],
           [type |-> PayloadType.PARAMS, schema |-> {"id"}]>>

\* restController: the values the promise may resolve to.  The base class
\* always answers 200 'Success'; an override runs user code and may answer
\* with any status it chooses.
restController(cls, params, query, body, headers, allData) ==
    IF cls = "MasterController" THEN {ResponseBuilder(200, "null", "Success")}
    ELSE {ResponseBuilder(200, "Response", "Success Message"),
          ResponseBuilder(400, "null", "Bad Request")}

\* the base restController only logs and returns; an override may throw
MayReject(cls) == cls # "MasterController"

---------------------------------------------------------------------------
(* Requests *)

Methods == {"GET", "POST"}
Paths == {"/user/:id", "/item"}
Middlewares == {"requestId"}
MiddlewareLists == {<<>>, <<"requestId">>}

\* a middleware attaches custom data to req and calls next()
ApplyMiddleware(mw, req) ==
    IF mw = "requestId" THEN [req EXCEPT !.props = Spread(@, [id |-> "m"])]
    ELSE req

RECURSIVE ApplyMiddlewares(_, _, _)
ApplyMiddlewares(mws, i, req) ==
    IF i > Len(mws) THEN req
    ELSE ApplyMiddlewares(mws, i + 1, ApplyMiddleware(mws[i], req))

\* the own enumerable properties of req that { ...req } copies: the
\* request's method and url, references to its params, query and body
\* objects, and whatever the middlewares attached
ReqOwn(req) ==
    Spread([method |-> req.method, url |-> req.path, params |-> "req.params",
            query |-> "req.query", body |-> "req.body"],
           req.props)

NewRequest(method, path, params, query, body, headers) ==
    [method |-> method, path |-> path, params |-> params, query |-> query,
     body |-> body, headers |-> headers, props |-> EmptyObj]

\* the requests a running server receives on '/user/:id'
Requests ==
    {NewRequest(m, "/user/:id", Obj(p, "p"), Obj(q, "q"), Obj(b, "b"), Obj(h, "h")) :
        m \in Methods, p \in SUBSET {"id"}, q \in SUBSET {"id"},
        b \in SUBSET {"id"}, h \in SUBSET {"id"}}

\* the requests used to exercise the route table: every method and path
RouteRequests ==
    {NewRequest(m, pa, Obj({"id"}, "p"), Obj({"id"}, "q"), Obj({"id"}, "b"), EmptyObj) :
        m \in Methods, pa \in Paths}

---------------------------------------------------------------------------
(* MasterController.handler *)

\* const controller = new self()
NewController(n) == n + 1

\* const allData = { ...req.params, ...req.query, ...req.body, ...req.headers, ...req }
AllData_paramsLast(req) ==
    Spread(Spread(Spread(Spread(req.query, req.body), req.headers), ReqOwn(req)),
           req.params)

AllData(req) ==
    Spread(Spread(Spread(Spread(req.params, req.query), req.body), req.headers),
           ReqOwn(req))

\* the body of the 400 response
ValidationErrorBody(joiErrors) ==
    [status |-> 400, message |-> "Validation Error", data |-> "null",
     errors |-> joiErrors.obj]

Sent(status, json) == [status |-> status, json |-> json]

\* does the handler take the validation-error branch: if (joiErrors)
TakesErrorBranch_never(joiErrors) == FALSE

TakesErrorBranch(joiErrors) == ~joiErrors.isNull

\* the synchronous part of the handler, up to the await: the state of the
\* request after it, for the handler of class cls (self) and instance count n
HandlerBegin(cls, route, req, n) ==
    LET controller == NewController(n)
        allData == AllData(req)
        validationRules == validate(cls)
        joiErrors == joiValidator(req.params, req.query, req.body, validationRules)
        base == [req |-> req, route |-> route, cls |-> cls, controller |-> controller,
                 allData |-> allData, joiErrors |-> joiErrors,
                 returned |-> <<>>]
    IN  IF TakesErrorBranch(joiErrors) THEN
            base @@ [phase |-> "validationError", rc |-> <<>>,
                     sent |-> <<Sent(400, ValidationErrorBody(joiErrors))>>]
        ELSE
            base @@ [phase |-> "awaiting",
                     rc |-> <<[cls |-> cls, controller |-> controller,
                               params |-> req.params, query |-> req.query,
                               body |-> req.body, headers |-> req.headers,
                               allData |-> allData]>>,
                     sent |-> <<>>]

\* the res object the continuation after the await answers on: the res of
\* the request whose handler invocation this is (a closure parameter)
ResOf_latest(i) == Len(reqs)

ResOf(i) == i

\* res.status(response.status).json(response)
HandlerRespond_ok(response) == Sent(200, response)

HandlerRespond(response) == Sent(response.status, response)

---------------------------------------------------------------------------
(* The Express router and MasterController.get / MasterController.post *)

\* static handler(): the request handler bound to the calling class
handler(cls) == [self |-> cls]

\* router.METHOD(path, middlewares, handler): adds one route and returns the router
RouterAdd(router, method, path, middlewares, h) ==
    [router |-> Append(router, [method |-> method, path |-> path,
                                middlewares |-> middlewares, handler |-> h]),
     ret |-> "router"]

get_asPost(cls, router, path, middlewares) ==
    RouterAdd(router, "POST", path, middlewares, handler(cls))

get(cls, router, path, middlewares) ==
    RouterAdd(router, "GET", path, middlewares, handler(cls))

post(cls, router, path, middlewares) ==
    RouterAdd(router, "POST", path, middlewares, handler(cls))

\* the class has no static put or delete: cls.put(...) throws a TypeError
\* and the router is left as it was
put(cls, router, path, middlewares) == [router |-> router, ret |-> "TypeError"]

delete(cls, router, path, middlewares) == [router |-> router, ret |-> "TypeError"]

Call(verb, cls, path, middlewares, r) ==
    [verb |-> verb, cls |-> cls, path |-> path, middlewares |-> middlewares,
     before |-> Len(routes), ret |-> r.ret, after |-> Len(r.router)]

\* an uncaught TypeError ends the router file, and with it the startup
Crashed == Len(calls) > 0 /\ calls[Len(calls)].ret = "TypeError"

CanRegister == ~listening /\ ~Crashed /\ Len(calls) < MaxCalls

Register(verb, cls, path, middlewares, r) ==
    /\ CanRegister
    /\ routes' = r.router
    /\ calls' = Append(calls, Call(verb, cls, path, middlewares, r))
    /\ UNCHANGED <<listening, created, reqs, jv>>

Get ==
    \E cls \in Classes, path \in Paths, mws \in MiddlewareLists :
        Register("get", cls, path, mws, get(cls, routes, path, mws))

Post ==
    \E cls \in Classes, path \in Paths, mws \in MiddlewareLists :
        Register("post", cls, path, mws, post(cls, routes, path, mws))

Put ==
    \E cls \in Classes, path \in Paths, mws \in MiddlewareLists :
        Register("put", cls, path, mws, put(cls, routes, path, mws))

Delete ==
    \E cls \in Classes, path \in Paths, mws \in MiddlewareLists :
        Register("delete", cls, path, mws, delete(cls, routes, path, mws))

\* server.js: the routes are registered while the app is configured, then
\* the server listens
Listen ==
    /\ ~listening /\ ~Crashed
    /\ listening' = TRUE
    /\ UNCHANGED <<routes, calls, created, reqs, jv>>

---------------------------------------------------------------------------
(* Dispatch of a request and the two halves of the handler *)

Matching(req) ==
    {i \in 1..Len(routes) : routes[i].method = req.method /\ routes[i].path = req.path}

Min(S) == CHOOSE x \in S : \A y \in S : x <= y

Unmatched(req) ==
    [req |-> req, route |-> 0, cls |-> "", controller |-> 0, allData |-> EmptyObj,
     joiErrors |-> JoiNull, returned |-> <<>>, phase |-> "unmatched",
     rc |-> <<>>, sent |-> <<>>]

\* Express runs the first matching route: its middlewares, then its handler,
\* which runs up to its await
Dispatch(req) ==
    /\ listening
    /\ Len(reqs) < MaxRequests
    /\ IF Matching(req) = {}
       THEN /\ reqs' = Append(reqs, Unmatched(req))
            /\ UNCHANGED created
       ELSE LET i == Min(Matching(req))
                slot == HandlerBegin(routes[i].handler.self, i,
                                     ApplyMiddlewares(routes[i].middlewares, 1, req),
                                     created)
            IN  /\ reqs' = Append(reqs, slot)
                /\ created' = slot.controller
    /\ UNCHANGED <<routes, calls, listening, jv>>

Receive == \E req \in Requests : Dispatch(req)

ReceiveOnRoute == \E req \in RouteRequests : Dispatch(req)

\* restController's promise resolves and the handler continues after the await
Return(i) ==
    /\ reqs[i].phase = "awaiting"
    /\ \E rb \in restController(reqs[i].cls, reqs[i].req.params, reqs[i].req.query,
                                reqs[i].req.body, reqs[i].req.headers,
                                reqs[i].allData) :
          LET j == ResOf(i)
              r1 == [reqs EXCEPT ![i].phase = "responded",
                                 ![i].returned = <<rb>>]
          IN  reqs' = [r1 EXCEPT ![j].sent = Append(@, HandlerRespond(rb.response))]
    /\ UNCHANGED <<routes, calls, listening, created, jv>>

\* restController's promise rejects: the handler sends nothing and
\* asyncHandler hands the error on
Reject(i) ==
    /\ reqs[i].phase = "awaiting"
    /\ MayReject(reqs[i].cls)
    /\ reqs' = [reqs EXCEPT ![i].phase = "rejected"]
    /\ UNCHANGED <<routes, calls, listening, created, jv>>

Resolve == \E i \in 1..Len(reqs) : Return(i)

Fail == \E i \in 1..Len(reqs) : Reject(i)

---------------------------------------------------------------------------
(* A stand-alone application of joiValidator *)

Values == {Obj(S, "v") : S \in SUBSET Keys}

RuleTypes == {PayloadType.PARAMS, PayloadType.QUERY, PayloadType.BODY}

Rules == [type : RuleTypes, schema : Schemas]

RuleLists == UNION {[1..n -> Rules] : n \in 0..MaxRules}

JvIdle ==
    [params |-> EmptyObj, query |-> EmptyObj, body |-> EmptyObj, rules |-> <<>>,
     done |-> FALSE, ret |-> JoiNull, runs |-> 0]

Validate ==
    /\ ~jv.done
    /\ LET r == joiValidatorRun(jv.params, jv.query, jv.body, jv.rules)
       IN  jv' = [jv EXCEPT !.done = TRUE, !.ret = r.ret, !.runs = r.runs]
    /\ UNCHANGED <<routes, calls, listening, created, reqs>>

---------------------------------------------------------------------------
(* Specifications *)

\* the README's router file, with one route per class
RouterFile ==
    LET c1 == get("Controller", <<>>, "/user/:id", <<"requestId">>)
        c2 == post("MasterController", c1.router, "/user/:id", <<>>)
    IN  c2.router

\* a running server: requests arrive and are handled concurrently
Init ==
    /\ routes = RouterFile
    /\ calls = <<>>
    /\ listening = TRUE
    /\ created = 0
    /\ reqs = <<>>
    /\ jv = JvIdle

Next == Receive \/ Resolve \/ Fail

Spec == Init /\ [][Next]_vars

\* startup: the router file registers routes, then requests are dispatched
InitRoute ==
    /\ routes = <<>>
    /\ calls = <<>>
    /\ listening = FALSE
    /\ created = 0
    /\ reqs = <<>>
    /\ jv = JvIdle

NextRoute == Get \/ Post \/ Put \/ Delete \/ Listen \/ ReceiveOnRoute

SpecRoute == InitRoute /\ [][NextRoute]_vars

\* joiValidator applied once to bounded arguments
InitJoi ==
    /\ routes = <<>>
    /\ calls = <<>>
    /\ listening = FALSE
    /\ created = 0
    /\ reqs = <<>>
    /\ \E p \in Values, q \in Values, b \in Values, rs \in RuleLists :
          jv = [JvIdle EXCEPT !.params = p, !.query = q, !.body = b, !.rules = rs]

NextJoi == Validate

SpecJoi == InitJoi /\ [][NextJoi]_vars

---------------------------------------------------------------------------
(* Properties *)

Handled == {i \in 1..Len(reqs) : reqs[i].phase # "unmatched"}

\* the validation result of request i, from its own params, query and body
\* and the rules of its controller class
OwnErrors(i) ==
    joiValidator(reqs[i].req.params, reqs[i].req.query, reqs[i].req.body,
                 validate(reqs[i].cls))

\* C1: a request whose validation yields a non-null error object gets
\* exactly one response, 400 with body {status: 400, message: 'Validation
\* Error', data: null, errors: <the error object>}, and restController is
\* never invoked for it.
C1_ValidationError400 ==
    \A i \in Handled :
        ~OwnErrors(i).isNull =>
            /\ reqs[i].sent =
                   <<[status |-> 400,
                      json |-> [status |-> 400, message |-> "Validation Error",
                                data |-> "null", errors |-> OwnErrors(i).obj]]>>
            /\ reqs[i].rc = <<>>
            /\ reqs[i].returned = <<>>

C1_Witness ==
    \E i \in Handled :
        /\ ~OwnErrors(i).isNull
        /\ "body" \in DOMAIN OwnErrors(i).obj
        /\ Len(reqs[i].sent) = 1
        /\ \E j \in Handled : reqs[j].phase = "responded"

\* what C2 says of request i apart from its last clause
C2_InvokedOnceThenOneResponse(i) ==
    /\ Len(reqs[i].rc) = 1
    /\ reqs[i].rc[1] =
           [cls |-> routes[reqs[i].route].handler.self,
            controller |-> reqs[i].controller,
            params |-> reqs[i].req.params, query |-> reqs[i].req.query,
            body |-> reqs[i].req.body, headers |-> reqs[i].req.headers,
            allData |-> reqs[i].allData]
    /\ reqs[i].phase \in {"awaiting", "rejected"} =>
           reqs[i].returned = <<>> /\ reqs[i].sent = <<>>
    /\ reqs[i].phase = "responded" =>
           /\ Len(reqs[i].returned) = 1
           /\ Len(reqs[i].sent) = 1
           /\ reqs[i].sent[1].status = reqs[i].returned[1].response.status
           /\ reqs[i].sent[1].json = reqs[i].returned[1].response

\* C2 as stated: a request whose validation yields no errors has
\* restController invoked exactly once with (params, query, body, headers,
\* allData); after it returns exactly one response is sent, with the
\* returned response's status and the response object as body; and no 400
\* is sent.
C2_AsStated ==
    \A i \in Handled :
        OwnErrors(i).isNull =>
            /\ C2_InvokedOnceThenOneResponse(i)
            /\ \A k \in 1..Len(reqs[i].sent) : reqs[i].sent[k].status # 400

\* C2 (amended): as C2, except that the last clause is "no validation-error
\* response is sent": the status sent is 400 only when the returned
\* response's own status is 400.
C2_Amended ==
    \A i \in Handled :
        OwnErrors(i).isNull =>
            /\ C2_InvokedOnceThenOneResponse(i)
            /\ \A k \in 1..Len(reqs[i].sent) :
                  /\ "errors" \notin DOMAIN reqs[i].sent[k].json
                  /\ reqs[i].sent[k].status = 400 =>
                         reqs[i].returned[1].response.status = 400

C2_Witness ==
    \E i \in Handled :
        /\ OwnErrors(i).isNull
        /\ reqs[i].cls = "Controller"
        /\ reqs[i].phase = "responded"
        /\ reqs[i].sent[1].status = 200

\* the sources of allData, in the order of the spread
AllDataSources(req) == <<req.params, req.query, req.body, req.headers, ReqOwn(req)>>

\* C6: the allData passed to restController has every key of params, query,
\* body, headers and the request object, and for a key in several of them
\* the value of the last one in that order.
C6_AllDataMerge ==
    \A i \in Handled :
        \A c \in 1..Len(reqs[i].rc) :
            LET all == reqs[i].rc[c].allData
                src == AllDataSources(reqs[i].req)
                has(k) == {n \in 1..5 : k \in DOMAIN src[n]}
                last(k) == CHOOSE n \in has(k) : \A m \in has(k) : m <= n
            IN  /\ DOMAIN all = UNION {DOMAIN src[n] : n \in 1..5}
                /\ \A k \in DOMAIN all : all[k] = src[last(k)][k]

C6_Witness ==
    \E i, j \in Handled :
        /\ Len(reqs[i].rc) = 1 /\ Len(reqs[j].rc) = 1
        /\ "id" \in DOMAIN reqs[i].req.params
        /\ "id" \in DOMAIN reqs[i].req.headers
        /\ reqs[i].req.props = [id |-> "m"]
        /\ reqs[i].rc[1].allData["id"] = "m"
        /\ "id" \in DOMAIN reqs[j].req.body
        /\ reqs[j].req.props = EmptyObj
        /\ reqs[j].rc[1].allData["id"] = "h"

---------------------------------------------------------------------------
(* Properties of route registration and dispatch *)

MethodOf(verb) ==
    CASE verb = "get" -> "GET"
      [] verb = "post" -> "POST"
      [] verb = "put" -> "PUT"
      [] verb = "delete" -> "DELETE"

\* call k registered exactly one route, of its method, path, middlewares
\* and class, and returned the router's result
RegisteredOne(k) ==
    /\ calls[k].ret = "router"
    /\ calls[k].after = calls[k].before + 1
    /\ calls[k].after <= Len(routes)
    /\ routes[calls[k].after] =
           [method |-> MethodOf(calls[k].verb), path |-> calls[k].path,
            middlewares |-> calls[k].middlewares,
            handler |-> [self |-> calls[k].cls]]

\* C4 as stated: each of get, post, put and delete registers a route of the
\* corresponding HTTP method for the given path in the router.
C4_AsStated == \A k \in 1..Len(calls) : RegisteredOne(k)

RangeOf(seq) == {seq[n] : n \in 1..Len(seq)}

\* C5: each get (post) call performs exactly one registration, for GET
\* (POST) only, with the given path and with the given middlewares before a
\* single handler of the calling class, and returns the router's result;
\* each request dispatched to a route runs that route's middlewares and
\* invokes that route's handler exactly once, and no other class's
\* restController.
C5_OneToOneDispatch ==
    /\ \A k \in 1..Len(calls) :
          calls[k].verb \in {"get", "post"} => RegisteredOne(k)
    /\ Len(routes) =
           Cardinality({k \in 1..Len(calls) : calls[k].verb \in {"get", "post"}})
    /\ created = Cardinality(Handled)
    /\ \A i \in Handled :
          LET rt == routes[reqs[i].route]
          IN  /\ rt.method = reqs[i].req.method
              /\ rt.path = reqs[i].req.path
              /\ \A n \in 1..(reqs[i].route - 1) :
                    ~(routes[n].method = reqs[i].req.method
                        /\ routes[n].path = reqs[i].req.path)
              /\ reqs[i].cls = rt.handler.self
              /\ ("requestId" \in RangeOf(rt.middlewares))
                     <=> ("id" \in DOMAIN reqs[i].req.props)
              /\ reqs[i].controller \in 1..created
              /\ \A j \in Handled \ {i} : reqs[j].controller # reqs[i].controller
              /\ Len(reqs[i].rc) <= 1
              /\ \A c \in 1..Len(reqs[i].rc) :
                    /\ reqs[i].rc[c].cls = rt.handler.self
                    /\ reqs[i].rc[c].controller = reqs[i].controller

C5_Witness ==
    /\ Len(calls) = 2
    /\ calls[1].verb = "get" /\ calls[2].verb = "post"
    /\ calls[1].cls # calls[2].cls
    /\ calls[1].path = calls[2].path
    /\ Len(reqs) = 2
    /\ reqs[1].route = 2 /\ reqs[2].route = 1
    /\ reqs[1].cls = calls[2].cls /\ reqs[2].cls = calls[1].cls
    /\ Len(reqs[1].rc) = 1 /\ Len(reqs[2].rc) = 1

---------------------------------------------------------------------------
(* Properties of joiValidator *)

\* the list of a part in the returned value, empty when the key is absent
PartList(ret, k) == IF k \in DOMAIN ret.obj THEN ret.obj[k] ELSE <<>>

\* the keys the rules of one type require and the given value lacks
Lacking(rules, type, value) ==
    UNION {rules[n].schema \ DOMAIN value :
              n \in {m \in 1..Len(rules) : rules[m].type = type}}

RECURSIVE LackingCount(_, _, _, _)
LackingCount(rules, type, value, n) ==
    IF n > Len(rules) THEN 0
    ELSE (IF rules[n].type = type
              THEN Cardinality(rules[n].schema \ DOMAIN value) ELSE 0)
         + LackingCount(rules, type, value, n + 1)

PartIsOwn(ret, k, rules, type, value) ==
    /\ RangeOf(PartList(ret, k)) = {<<key, "is required">> : key \in Lacking(rules, type, value)}
    /\ Len(PartList(ret, k)) = LackingCount(rules, type, value, 1)

\* C3: a PARAMS rule is applied to the params only and its messages go to
\* the 'param' list only, a QUERY rule to the query and the 'query' list, a
\* BODY rule to the body and the 'body' list: each list holds exactly the
\* messages of its own part's rules on its own part's data.
C3_PartByPart ==
    jv.done =>
        /\ PartIsOwn(jv.ret, "param", jv.rules, "PARAMS", jv.params)
        /\ PartIsOwn(jv.ret, "query", jv.rules, "QUERY", jv.query)
        /\ PartIsOwn(jv.ret, "body", jv.rules, "BODY", jv.body)

C3_Witness ==
    /\ jv.done
    /\ Len(jv.rules) = 2
    /\ jv.rules[1].type = "BODY" /\ jv.rules[2].type = "QUERY"
    /\ jv.rules[1].schema = {"id", "limit"} /\ jv.rules[2].schema = {"id"}
    /\ jv.body = EmptyObj
    /\ DOMAIN jv.query = {"id"}
    /\ jv.params = EmptyObj
    /\ jv.ret.obj = [body |-> <<<<"id", "is required">>, <<"limit", "is required">>>>]

PartValue(type) ==
    CASE type = "PARAMS" -> jv.params
      [] type = "QUERY" -> jv.query
      [] type = "BODY" -> jv.body

SomeRuleFails ==
    \E n \in 1..Len(jv.rules) :
        jv.rules[n].schema \ DOMAIN PartValue(jv.rules[n].type) # {}

\* C7: joiValidator returns null iff the rule set is empty or no rule
\* produced a message; otherwise an object whose keys are a non-empty subset
\* of {query, param, body}, each with a non-empty list; with an empty rule
\* set no schema is run.
C7_NullOrNonEmpty ==
    jv.done =>
        /\ jv.ret.isNull <=> (Len(jv.rules) = 0 \/ ~SomeRuleFails)
        /\ jv.ret.isNull => jv.ret.obj = EmptyObj
        /\ ~jv.ret.isNull =>
              /\ DOMAIN jv.ret.obj # {}
              /\ DOMAIN jv.ret.obj \subseteq {"query", "param", "body"}
              /\ \A k \in DOMAIN jv.ret.obj : Len(jv.ret.obj[k]) > 0
        /\ Len(jv.rules) = 0 => jv.runs = 0

C7_Witness ==
    /\ jv.done
    /\ Len(jv.rules) = 2
    /\ jv.runs = 2
    /\ ~jv.ret.isNull
    /\ DOMAIN jv.ret.obj = {"query"}

===========================================================================
